---- MODULE Spec2Model ----
(***************************************************************************)
(* Model of the MQTT alarm controller of src/alarm.py (class MqttAlarm).   *)
(*                                                                         *)
(* The controller's state is the current Status, the outstanding challenge *)
(* (sendPin), the remembered armed profile (armStatus), the pending        *)
(* threading.Timer callbacks and the broker subscriptions.  Every handler  *)
(* (on_connect, on_message, a timer callback) is one atomic action in     *)
(* Spec; what a handler publishes, subscribes and unsubscribes is          *)
(* recorded, in order, in `out`.  SpecRace runs the timer callbacks and    *)
(* the disarming handlers statement by statement, as the threads of the    *)
(* program do.                                                             *)
(***************************************************************************)
EXTENDS Integers, Sequences, FiniteSets, TLC

VARIABLES
    status,             \* self.status: [main, countdown, challengePin]
    sendPin,            \* self.sendPin: the outstanding challenge ('' = <<>>)
    armStatus,          \* self.armStatus
    armingCountdown,    \* self.armingCountdown (configuration)
    triggeredCountdown, \* self.triggeredCountdown (configuration)
    disarmPin,          \* self.disarmPin (configuration)
    timers,             \* the started threading.Timer objects not yet fired
    subscriptions,      \* topic filters the client is subscribed to
    connected,          \* on_connect has run
    out,                \* what the last handler sent to the client, in order
    last,               \* the input the last handler was given
    runs,               \* number of countdown runs started so far
    cancelled,          \* runs that had a tick pending when a disarm went through
    armLog,             \* statuses published by the current undisturbed arming run
    threads,            \* callbacks that have begun and not ended (SpecRace)
    published,          \* the status last published on publishTopic
    triggeredBy,        \* the event and rule that last made the alarm TRIGGERED
    armRequest          \* the arm command accepted last and the ticks fired since

vars == << status, sendPin, armStatus, armingCountdown, triggeredCountdown,
           disarmPin, timers, subscriptions, connected, out, last, runs,
           cancelled, armLog, threads, published, triggeredBy,
           armRequest >>

-----------------------------------------------------------------------------
(* Bounds of the model.                                                    *)

MaxArmingCountdown == 3
MaxTriggeredCountdown == 2
MaxRuns == 2

-----------------------------------------------------------------------------
(* Values.                                                                 *)

None == "None"

\* StatusMain
UNAVAILABLE == "UNAVAILABLE"
UNARMED == "UNARMED"
ARMING == "ARMING"
ARMED_HOME == "ARMED_HOME"
ARMED_AWAY == "ARMED_AWAY"
TRIGGERED == "TRIGGERED"
ACTIVATED == "ACTIVATED"

StatusMain == { UNAVAILABLE, UNARMED, ARMING, ARMED_HOME, ARMED_AWAY,
                TRIGGERED, ACTIVATED }

\* A string is a sequence of one-character strings; '' is <<>>.
EmptyString == << >>

\* Status( main = UNARMED, countdown = 0, challengePin = '' )
Status(main, countdown, challengePin) ==
    [ main |-> main, countdown |-> countdown, challengePin |-> challengePin ]

Status1(main) == Status(main, 0, EmptyString)

Status2(main, countdown) == Status(main, countdown, EmptyString)

\* Status.toJson: the object that is serialised
toJson(s) ==
    [ type |-> "status", main |-> s.main, countdown |-> s.countdown,
      challengePin |-> s.challengePin ]

-----------------------------------------------------------------------------
(* Strings of digits: self.disarmPin, self.sendPin and the pin of a        *)
(* DEACTIVATE are Python strings; the code indexes them, tests isdigit(),  *)
(* converts with int() and back with str().                                *)

PinLen == 4

DigitChars == << "0", "1", "2", "3", "4", "5", "6", "7", "8", "9" >>

\* c.isdigit() for a one-character string
isdigit(c) == \E i \in 1..Len(DigitChars) : DigitChars[i] = c

\* int( c ) for a digit character
int(c) == (CHOOSE i \in 1..Len(DigitChars) : DigitChars[i] = c) - 1

\* str( n ) for n in 0..9
str(n) == DigitChars[n + 1]

-----------------------------------------------------------------------------
(* MQTT topics are sequences of levels; "+" and "#" are the wildcards.     *)

RECURSIVE topic_matches_sub(_, _)
\* paho.mqtt.client.topic_matches_sub( sub, topic )
topic_matches_sub(sub, topic) ==
    IF sub = << >> THEN topic = << >>
    ELSE IF Head(sub) = "#" THEN Len(sub) = 1
    ELSE IF topic = << >> THEN FALSE
    ELSE IF Head(sub) = "+" \/ Head(sub) = Head(topic)
         THEN topic_matches_sub(Tail(sub), Tail(topic))
    ELSE FALSE

\* re.search( regex, text ) is not None.  A payload text is a sequence of
\* words and a regex is the set of literal words it is an alternation of:
\* it is found in the text when one of them occurs in it.
re_search(regex, text) == \E i \in 1..Len(text) : text[i] \in regex

-----------------------------------------------------------------------------
(* Configuration (what __main__ builds from alarm.conf).                   *)

\* MqttParams.subscribeTopic / publishTopic, Notification.notifierMqttPublish
subscribeTopic == << "alarm", "command" >>
publishTopic == << "alarm", "status" >>
notifierMqttPublish == << "notifier", "command" >>

MqttPublish(topic, command) == [ topic |-> topic, command |-> command ]

Notify(sms, phonecall, im, email) ==
    [ sms |-> sms, phonecall |-> phonecall, im |-> im, email |-> email ]

Trigger(topics, regex, notify) ==
    [ topics |-> topics, regex |-> regex, notify |-> notify ]

ArmConfig(start, stop, triggers) ==
    [ start |-> start, stop |-> stop, triggers |-> triggers ]

\* Python's None where an object is expected (Trigger.notify is optional)
NoneObject == [ none |-> TRUE ]

IsNone(x) == "none" \in DOMAIN x

NotifyDoor == Notify(<< "sms-owner" >>, << "call-owner" >>, << >>, None)
NotifyMotion == Notify(<< >>, << >>, << "im-guard" >>, None)

\* armedAway: two rules that overlap on house/door, the second without a
\* 'notify' entry (Trigger.notify = None)
armedAway ==
    ArmConfig(
        << MqttPublish(<< "sensors", "motion", "set" >>, "on"),
           MqttPublish(<< "siren", "set" >>, "standby") >>,
        << MqttPublish(<< "sensors", "motion", "set" >>, "off") >>,
        << Trigger(<< << "house", "+" >> >>, { "open", "motion" }, NotifyDoor),
           Trigger(<< << "house", "door" >>, << "garden", "#" >> >>, { "open" }, NoneObject) >>)

armedHome ==
    ArmConfig(
        << MqttPublish(<< "siren", "set" >>, "standby") >>,
        << MqttPublish(<< "siren", "set" >>, "off") >>,
        << Trigger(<< << "house", "door" >> >>, { "open" }, NotifyMotion) >>)

\* The disarm secrets the configuration is drawn from
DisarmPins == { << "9", "4", "9", "7" >> }

-----------------------------------------------------------------------------
(* The controller.  A handler is a function of the controller's state S,   *)
(* a record of the fields it reads and writes:                             *)
(*   status, sendPin, armStatus  the attributes of MqttAlarm               *)
(*   timers                      the Timer objects started and not fired   *)
(*   subscriptions               the client's subscriptions                *)
(*   out                         the client calls made by this handler     *)
(*   runs                        how many countdown runs were started      *)
(* A timer records the callback and its arguments, and the number of the   *)
(* run whose chain of ticks it belongs to.                                 *)

NoMessage == [ topic |-> << >>, payload |-> [ words |-> << >>, json |-> NoneObject ] ]

ArmTimer(finalArmStatus, run) ==
    [ callback |-> "doArm", finalArmStatus |-> finalArmStatus,
      message |-> NoMessage, notify |-> NoneObject, run |-> run ]

TriggerTimer(message, notify, run) ==
    [ callback |-> "doTrigger", finalArmStatus |-> Status1(UNARMED),
      message |-> message, notify |-> notify, run |-> run ]

\* client.publish / client.subscribe / client.unsubscribe
publish(S, topic, payload) ==
    [ S EXCEPT !.out = Append(@, [ call |-> "publish", topic |-> topic,
                                   payload |-> payload ]) ]

subscribe(S, topic) ==
    [ S EXCEPT !.subscriptions = @ \cup { topic },
               !.out = Append(@, [ call |-> "subscribe", topic |-> topic,
                                   payload |-> NoneObject ]) ]

unsubscribe(S, topic) ==
    [ S EXCEPT !.subscriptions = @ \ { topic },
               !.out = Append(@, [ call |-> "unsubscribe", topic |-> topic,
                                   payload |-> NoneObject ]) ]

\* threading.Timer( 1.0, callback, args ).start()
startTimer(S, timer) == [ S EXCEPT !.timers = @ \cup { timer } ]

\* MqttAlarm.__setStatus
setStatus(S, newStatus) ==
    publish([ S EXCEPT !.status = newStatus ], publishTopic, toJson(newStatus))

RECURSIVE triggerTopics(_)
\* for t in triggers: for o in t.topics: the topics in the order visited
triggerTopics(triggers) ==
    IF triggers = << >> THEN << >>
    ELSE Head(triggers).topics \o triggerTopics(Tail(triggers))

RECURSIVE subscribeAll(_, _)
subscribeAll(S, topics) ==
    IF topics = << >> THEN S
    ELSE subscribeAll(subscribe(S, Head(topics)), Tail(topics))

RECURSIVE unsubscribeAll(_, _)
unsubscribeAll(S, topics) ==
    IF topics = << >> THEN S
    ELSE unsubscribeAll(unsubscribe(S, Head(topics)), Tail(topics))

RECURSIVE publishAll(_, _)
\* for p in mqttPublish: client.publish( p.topic, p.command )
publishAll(S, mqttPublish) ==
    IF mqttPublish = << >> THEN S
    ELSE publishAll(publish(S, Head(mqttPublish).topic,
                            [ type |-> "command", command |-> Head(mqttPublish).command ]),
                    Tail(mqttPublish))

EmptyArmConfig == ArmConfig(<< >>, << >>, << >>)

\* __doArm publishing the countdown it found instead of one less
doArm_NoDecrement(S, finalArmStatus, run) ==
    IF ARMING # S.status.main THEN S
    ELSE IF S.status.countdown > 0
    THEN setStatus(startTimer(S, ArmTimer(finalArmStatus, run)),
                   Status2(ARMING, S.status.countdown))
    ELSE LET config == IF ARMED_AWAY = finalArmStatus.main THEN armedAway
                       ELSE IF ARMED_HOME = finalArmStatus.main THEN armedHome
                       ELSE EmptyArmConfig
             S1 == subscribeAll(S, triggerTopics(config.triggers))
             S2 == publishAll(S1, config.start)
             S3 == [ S2 EXCEPT !.armStatus = finalArmStatus.main ]
         IN  setStatus(S3, finalArmStatus)

\* __doArm publishing the armed status before it subscribes
doArm_StatusFirst(S, finalArmStatus, run) ==
    IF ARMING # S.status.main THEN S
    ELSE IF S.status.countdown > 0
    THEN setStatus(startTimer(S, ArmTimer(finalArmStatus, run)),
                   Status2(ARMING, S.status.countdown - 1))
    ELSE LET config == IF ARMED_AWAY = finalArmStatus.main THEN armedAway
                       ELSE IF ARMED_HOME = finalArmStatus.main THEN armedHome
                       ELSE EmptyArmConfig
             S1 == setStatus(S, finalArmStatus)
             S2 == subscribeAll(S1, triggerTopics(config.triggers))
             S3 == publishAll(S2, config.start)
         IN  [ S3 EXCEPT !.armStatus = finalArmStatus.main ]

\* __doArm with the countdown test off by one (countdown > 1)
doArm_OffByOne(S, finalArmStatus, run) ==
    IF ARMING # S.status.main THEN S
    ELSE IF S.status.countdown > 1
    THEN setStatus(startTimer(S, ArmTimer(finalArmStatus, run)),
                   Status2(ARMING, S.status.countdown - 1))
    ELSE LET config == IF ARMED_AWAY = finalArmStatus.main THEN armedAway
                       ELSE IF ARMED_HOME = finalArmStatus.main THEN armedHome
                       ELSE EmptyArmConfig
             S1 == subscribeAll(S, triggerTopics(config.triggers))
             S2 == publishAll(S1, config.start)
             S3 == [ S2 EXCEPT !.armStatus = finalArmStatus.main ]
         IN  setStatus(S3, finalArmStatus)

\* MqttAlarm.__doArm
doArm(S, finalArmStatus, run) ==
    IF ARMING # S.status.main THEN S
    ELSE IF S.status.countdown > 0
    THEN setStatus(startTimer(S, ArmTimer(finalArmStatus, run)),
                   Status2(ARMING, S.status.countdown - 1))
    ELSE LET config == IF ARMED_AWAY = finalArmStatus.main THEN armedAway
                       ELSE IF ARMED_HOME = finalArmStatus.main THEN armedHome
                       ELSE EmptyArmConfig
             S1 == subscribeAll(S, triggerTopics(config.triggers))
             S2 == publishAll(S1, config.start)
             S3 == [ S2 EXCEPT !.armStatus = finalArmStatus.main ]
         IN  setStatus(S3, finalArmStatus)

\* __arm without its test of the main state
arm_Unguarded(S, finalArmStatus) ==
    LET S1 == [ S EXCEPT !.runs = @ + 1 ]
    IN  doArm(setStatus(S1, Status2(ARMING, armingCountdown)),
              finalArmStatus, S1.runs)

\* MqttAlarm.__arm
arm(S, finalArmStatus) ==
    IF UNARMED # S.status.main THEN S
    ELSE LET S1 == [ S EXCEPT !.runs = @ + 1 ]
         IN  doArm(setStatus(S1, Status2(ARMING, armingCountdown)),
                   finalArmStatus, S1.runs)

\* Notification.generateMessage: the template with {device_name} and {text}
\* replaced; when the device-name lookup fails the template is returned as is
generateMessage(message, lookupOk) ==
    IF lookupOk
    THEN [ device_name |-> message.topic, text |-> message.payload.words ]
    ELSE [ device_name |-> << "{device_name}" >>, text |-> << "{text}" >> ]

\* Notify.toMqttCommand
toMqttCommand(notify, messageText) ==
    [ type |-> "notification",
      sms |-> [ recipients |-> notify.sms, text |-> messageText ],
      phonecall |-> notify.phonecall,
      im |-> [ recipients |-> notify.im, text |-> messageText ],
      email |-> notify.email ]

\* MqttAlarm.__activate.  With notify = None the attribute access
\* notify.toMqttCommand raises AttributeError after the status was set, and
\* the callback ends there.
activate(S, message, notify, lookupOk) ==
    LET S1 == setStatus(S, Status1(ACTIVATED))
    IN  IF IsNone(notify) THEN S1
        ELSE publish(S1, notifierMqttPublish,
                     toMqttCommand(notify, generateMessage(message, lookupOk)))

\* MqttAlarm.__doTrigger
doTrigger(S, message, notify, run, lookupOk) ==
    IF TRIGGERED # S.status.main THEN S
    ELSE IF S.status.countdown > 0
    THEN setStatus(startTimer(S, TriggerTimer(message, notify, run)),
                   Status(TRIGGERED, S.status.countdown - 1, S.sendPin))
    ELSE activate(S, message, notify, lookupOk)

\* MqttAlarm.__trigger
trigger(S, message, notify, lookupOk) ==
    IF S.status.main \notin { ARMED_AWAY, ARMED_HOME } THEN S
    ELSE LET S1 == [ S EXCEPT !.runs = @ + 1 ]
         IN  doTrigger(setStatus(S1, Status(TRIGGERED, triggeredCountdown, S1.sendPin)),
                       message, notify, S1.runs, lookupOk)

\* MqttAlarm.__deactivateRequest; pin is what the four random.randint( 0, 9 )
\* calls produced
deactivateRequest(S, pin) ==
    LET S1 == [ S EXCEPT !.sendPin = pin ]
    IN  setStatus(S1, Status(S1.status.main, S1.status.countdown, S1.sendPin))

\* __doDisarm building the new status from the old countdown
doDisarm_KeepsCountdown(S) ==
    LET config == IF ARMED_AWAY = S.status.main THEN armedAway
                  ELSE IF ARMED_HOME = S.status.main THEN armedHome
                  ELSE EmptyArmConfig
        S1 == unsubscribeAll(S, triggerTopics(config.triggers))
        S2 == publishAll(S1, config.stop)
        S3 == [ S2 EXCEPT !.armStatus = UNARMED ]
    IN  setStatus(S3, Status2(UNARMED, S.status.countdown))

\* MqttAlarm.__doDisarm
doDisarm(S) ==
    LET config == IF ARMED_AWAY = S.status.main THEN armedAway
                  ELSE IF ARMED_HOME = S.status.main THEN armedHome
                  ELSE EmptyArmConfig
        S1 == unsubscribeAll(S, triggerTopics(config.triggers))
        S2 == publishAll(S1, config.stop)
        S3 == [ S2 EXCEPT !.armStatus = UNARMED ]
    IN  setStatus(S3, Status1(UNARMED))

\* __disarm without its test of the main state
disarm_Unguarded(S) == doDisarm(S)

\* MqttAlarm.__disarm
disarm(S) ==
    IF \/ ARMED_AWAY = S.status.main
       \/ ARMED_HOME = S.status.main
       \/ ARMING = S.status.main
    THEN doDisarm(S)
    ELSE S

\* the pin loop reading a missing digit of the challenge as 0
pinMatches_NoChallengeIsZero(pin, challenge) ==
    \A i \in 1..PinLen :
        /\ i <= Len(pin)
        /\ isdigit(pin[i])
        /\ str((int(pin[i]) - (IF i <= Len(challenge) THEN int(challenge[i]) ELSE 0)) % 10)
               = disarmPin[i]

\* the pin loop with pin and challenge exchanged in the subtraction
pinMatches_Swapped(pin, challenge) ==
    \A i \in 1..PinLen :
        /\ i <= Len(pin)
        /\ isdigit(pin[i])
        /\ i <= Len(challenge)
        /\ str((int(challenge[i]) - int(pin[i])) % 10) = disarmPin[i]

\* The loop of __deactivate over range( 4 ) runs to its end: every pin[i]
\* exists and is a digit, every sendPin[i] exists, and
\* str( ( int( pin[i] ) - int( sendPin[i] ) ) % 10 ) == disarmPin[i].
\* An IndexError on pin[i] or sendPin[i] ends the handler like a return.
pinMatches(pin, challenge) ==
    \A i \in 1..PinLen :
        /\ i <= Len(pin)
        /\ isdigit(pin[i])
        /\ i <= Len(challenge)
        /\ str((int(pin[i]) - int(challenge[i])) % 10) = disarmPin[i]

\* __deactivate dropping the challenge when the pin is wrong
deactivate_ConsumesChallenge(S, text) ==
    IF S.status.main \notin { TRIGGERED, ACTIVATED } THEN S
    ELSE IF IsNone(text.json) THEN S
    ELSE IF "pin" \notin text.json.keys THEN S
    ELSE IF ~ pinMatches(text.json.pin, S.sendPin)
         THEN [ S EXCEPT !.sendPin = EmptyString ]
    ELSE doDisarm([ S EXCEPT !.sendPin = EmptyString ])

\* MqttAlarm.__deactivate; text.json is json.loads( text ), None when it
\* raises ValueError
deactivate(S, text) ==
    IF S.status.main \notin { TRIGGERED, ACTIVATED } THEN S
    ELSE IF IsNone(text.json) THEN S
    ELSE IF "pin" \notin text.json.keys THEN S
    ELSE IF ~ pinMatches(text.json.pin, S.sendPin) THEN S
    ELSE doDisarm([ S EXCEPT !.sendPin = EmptyString ])

-----------------------------------------------------------------------------
(* Payload texts.  A text is the sequence of words it is made of, as far   *)
(* as str.find and re.search can tell, together with what json.loads makes *)
(* of it (None when it is not JSON).  The name DEACTIVATE_REQUEST is the   *)
(* name DEACTIVATE followed by _REQUEST.                                   *)

\* AlarmCommand.<X>.name
ARM_HOME == << "ARM_HOME" >>
ARM_AWAY == << "ARM_AWAY" >>
DEACTIVATE_REQUEST == << "DEACTIVATE", "_REQUEST" >>
DEACTIVATE == << "DEACTIVATE" >>
DISARM == << "DISARM" >>

\* text.find( name ): the first position of name in text, or -1
find(text, name) ==
    LET hits == { i \in 0..(Len(text.words) - Len(name)) :
                    SubSeq(text.words, i + 1, i + Len(name)) = name }
    IN  IF hits = { } THEN -1
        ELSE CHOOSE i \in hits : \A j \in hits : i <= j

PlainText(words) == [ words |-> words, json |-> NoneObject ]

\* a JSON object with the given keys; pin is the value of "pin" if present
JsonText(words, keys, pin) ==
    [ words |-> words, json |-> [ keys |-> keys, pin |-> pin ] ]

RECURSIVE checkTriggers(_, _, _, _)
\* the loops of __on_message over the triggers and their topics, from the
\* given trigger on
checkTriggers(S, triggers, message, lookupOk) ==
    IF triggers = << >> THEN S
    ELSE LET t == Head(triggers)
         IN  IF t.topics = << >>
             THEN checkTriggers(S, Tail(triggers), message, lookupOk)
             ELSE LET o == Head(t.topics)
                      rest == << [ t EXCEPT !.topics = Tail(@) ] >> \o Tail(triggers)
                      S1 == IF /\ topic_matches_sub(o, message.topic)
                               /\ re_search(t.regex, message.payload.words)
                            THEN trigger(S, message, t.notify, lookupOk)
                            ELSE S
                  IN  checkTriggers(S1, rest, message, lookupOk)

\* __on_message testing for DEACTIVATE before DEACTIVATE_REQUEST
on_message_DeactivateFirst(S, message, pin, lookupOk) ==
    LET text == message.payload
    IN  IF topic_matches_sub(subscribeTopic, message.topic)
        THEN IF find(text, ARM_HOME) > -1 THEN arm(S, Status1(ARMED_HOME))
             ELSE IF find(text, ARM_AWAY) > -1 THEN arm(S, Status1(ARMED_AWAY))
             ELSE IF find(text, DEACTIVATE) > -1 THEN deactivate(S, text)
             ELSE IF find(text, DEACTIVATE_REQUEST) > -1 THEN deactivateRequest(S, pin)
             ELSE IF find(text, DISARM) > -1 THEN disarm(S)
             ELSE S
        ELSE IF S.status.main \in { ARMED_AWAY, ARMED_HOME }
             THEN LET triggers == IF ARMED_AWAY = S.armStatus THEN armedAway.triggers
                                  ELSE IF ARMED_HOME = S.armStatus THEN armedHome.triggers
                                  ELSE << >>
                  IN  checkTriggers(S, triggers, message, lookupOk)
             ELSE S

\* __on_message looking up the triggers of the other profile
on_message_SwappedProfiles(S, message, pin, lookupOk) ==
    LET text == message.payload
    IN  IF topic_matches_sub(subscribeTopic, message.topic)
        THEN IF find(text, ARM_HOME) > -1 THEN arm(S, Status1(ARMED_HOME))
             ELSE IF find(text, ARM_AWAY) > -1 THEN arm(S, Status1(ARMED_AWAY))
             ELSE IF find(text, DEACTIVATE_REQUEST) > -1 THEN deactivateRequest(S, pin)
             ELSE IF find(text, DEACTIVATE) > -1 THEN deactivate(S, text)
             ELSE IF find(text, DISARM) > -1 THEN disarm(S)
             ELSE S
        ELSE IF S.status.main \in { ARMED_AWAY, ARMED_HOME }
             THEN LET triggers == IF ARMED_AWAY = S.armStatus THEN armedHome.triggers
                                  ELSE IF ARMED_HOME = S.armStatus THEN armedAway.triggers
                                  ELSE << >>
                  IN  checkTriggers(S, triggers, message, lookupOk)
             ELSE S

\* MqttAlarm.__on_message; pin and lookupOk are what random and the
\* device-name lookup would yield if the handler came to use them
on_message(S, message, pin, lookupOk) ==
    LET text == message.payload
    IN  IF topic_matches_sub(subscribeTopic, message.topic)
        THEN IF find(text, ARM_HOME) > -1 THEN arm(S, Status1(ARMED_HOME))
             ELSE IF find(text, ARM_AWAY) > -1 THEN arm(S, Status1(ARMED_AWAY))
             ELSE IF find(text, DEACTIVATE_REQUEST) > -1 THEN deactivateRequest(S, pin)
             ELSE IF find(text, DEACTIVATE) > -1 THEN deactivate(S, text)
             ELSE IF find(text, DISARM) > -1 THEN disarm(S)
             ELSE S
        ELSE IF S.status.main \in { ARMED_AWAY, ARMED_HOME }
             THEN LET triggers == IF ARMED_AWAY = S.armStatus THEN armedAway.triggers
                                  ELSE IF ARMED_HOME = S.armStatus THEN armedHome.triggers
                                  ELSE << >>
                  IN  checkTriggers(S, triggers, message, lookupOk)
             ELSE S

\* MqttAlarm.__on_connect
on_connect(S) == setStatus(subscribe(S, subscribeTopic), S.status)

\* A Timer fires: its callback runs with its arguments
timerFires(S, timer, lookupOk) ==
    LET S1 == [ S EXCEPT !.timers = @ \ { timer } ]
    IN  IF timer.callback = "doArm"
        THEN doArm(S1, timer.finalArmStatus, timer.run)
        ELSE doTrigger(S1, timer.message, timer.notify, timer.run, lookupOk)

-----------------------------------------------------------------------------
(* Inputs.                                                                 *)

\* what random.randint may make of the challenge
ChallengePins == { << "1", "2", "3", "4" >>, << "0", "0", "0", "0" >> }

\* the pins a DEACTIVATE may carry
ResponsePins ==
    { << "0", "6", "2", "1" >>, << "0", "0", "0", "0" >>, << "9", "4", "9", "7" >>,
      << "0", "6", "2", "2" >>, << "1", "6", "2", "1" >> }

CommandTexts ==
    { PlainText(w) : w \in { ARM_HOME, ARM_AWAY, DEACTIVATE_REQUEST, DEACTIVATE,
                             DISARM, << "STATUS" >> } }
    \cup { JsonText(<< >>, { "pin" }, p) :
               p \in { << "0", "6", "2", "1" >>, << "0", "0", "0", "0" >> } }
    \cup { JsonText(DEACTIVATE, { "command", "pin" }, p) : p \in ResponsePins }
    \cup { JsonText(DEACTIVATE, { "command" }, EmptyString) }

CommandMessages == { [ topic |-> subscribeTopic, payload |-> t ] : t \in CommandTexts }

EventMessage(topic, word) == [ topic |-> topic, payload |-> PlainText(<< word >>) ]

\* house/door "open" matches both rules of armedAway and the rule of
\* armedHome; garden/gate "open" matches only the rule without notify
EventMessages ==
    { EventMessage(<< "house", "door" >>, "open"),
      EventMessage(<< "house", "door" >>, "closed"),
      EventMessage(<< "house", "window" >>, "motion"),
      EventMessage(<< "garden", "gate" >>, "open"),
      EventMessage(<< "cellar", "door" >>, "open") }

-----------------------------------------------------------------------------
(* The state machine.                                                      *)

NoTimer == ArmTimer(Status1(UNARMED), 0)

NoLog == [ run |-> 0, target |-> None, log |-> << >> ]

Input(kind, message, timer) == [ kind |-> kind, message |-> message, timer |-> timer ]

\* the controller's state at the start of a handler
Current ==
    [ status |-> status, sendPin |-> sendPin, armStatus |-> armStatus,
      timers |-> timers, subscriptions |-> subscriptions, out |-> << >>,
      runs |-> runs ]

\* the statuses among the client calls of a handler, in order
RECURSIVE statusesOf(_)
statusesOf(calls) ==
    IF calls = << >> THEN << >>
    ELSE IF Head(calls).call = "publish" /\ Head(calls).topic = publishTopic
         THEN << Head(calls).payload >> \o statusesOf(Tail(calls))
         ELSE statusesOf(Tail(calls))

\* the armed state an arm command asks for
requested(text) == IF find(text, ARM_HOME) > -1 THEN ARMED_HOME ELSE ARMED_AWAY

\* no arm command is in force
NoRequest == [ target |-> None, ticks |-> 0 ]

\* no event has triggered the alarm
NoCause == [ message |-> NoMessage, notify |-> NoneObject ]

RECURSIVE matchedNotifies(_, _)
\* the notify of every rule and topic that matches the message, in the
\* order in which __on_message visits them
matchedNotifies(triggers, message) ==
    IF triggers = << >> THEN << >>
    ELSE LET t == Head(triggers)
         IN  IF t.topics = << >>
             THEN matchedNotifies(Tail(triggers), message)
             ELSE LET o == Head(t.topics)
                      rest == << [ t EXCEPT !.topics = Tail(@) ] >> \o Tail(triggers)
                  IN  (IF /\ topic_matches_sub(o, message.topic)
                          /\ re_search(t.regex, message.payload.words)
                       THEN << t.notify >> ELSE << >>)
                      \o matchedNotifies(rest, message)

\* The handler took the controller from Current to S.  The variables
\* cancelled, armLog, published, triggeredBy and armRequest are history:
\* which runs had a tick pending when a command disarmed, what the arming
\* run that nothing has disturbed published, the status published last,
\* the event and the notify of the rule match that took the alarm out of an
\* armed state, and the state the last accepted ARM_HOME or ARM_AWAY asked
\* for with the number of timers that fired while the alarm was ARMING
\* since (counted where a callback is one step).
Becomes(S, input) ==
    /\ S.runs <= MaxRuns
    /\ status' = S.status
    /\ sendPin' = S.sendPin
    /\ armStatus' = S.armStatus
    /\ timers' = S.timers
    /\ subscriptions' = S.subscriptions
    /\ out' = S.out
    /\ runs' = S.runs
    /\ last' = input
    /\ cancelled' = IF /\ input.kind = "command"
                       /\ status.main # UNARMED
                       /\ S.status.main = UNARMED
                    THEN cancelled \cup { t.run : t \in timers }
                    ELSE cancelled
    /\ armLog' = IF /\ input.kind = "command"
                    /\ status.main = UNARMED
                    /\ S.status.main # UNARMED
                 THEN [ run |-> S.runs, target |-> requested(input.message.payload),
                        log |-> statusesOf(S.out) ]
                 ELSE IF input.kind = "timer" /\ input.timer.run = armLog.run
                 THEN [ armLog EXCEPT !.log = @ \o statusesOf(S.out) ]
                 ELSE IF input.kind = "event" /\ S.status = status
                 THEN armLog
                 ELSE NoLog
    /\ published' = LET statuses == statusesOf(S.out)
                    IN  IF statuses = << >> THEN published
                        ELSE statuses[Len(statuses)]
    /\ triggeredBy' =
           IF /\ input.kind = "event"
              /\ status.main \in { ARMED_AWAY, ARMED_HOME }
              /\ S.status.main \in { TRIGGERED, ACTIVATED }
           THEN LET triggers == IF ARMED_AWAY = armStatus THEN armedAway.triggers
                                ELSE armedHome.triggers
                    matched == matchedNotifies(triggers, input.message)
                IN  [ message |-> input.message,
                      notify |-> IF matched = << >> THEN NoneObject
                                 ELSE Head(matched) ]
           ELSE IF S.status.main \in { TRIGGERED, ACTIVATED } THEN triggeredBy
           ELSE NoCause
    /\ armRequest' =
           IF /\ input.kind = "command"
              /\ status.main = UNARMED
              /\ S.status.main # UNARMED
           THEN [ target |-> requested(input.message.payload), ticks |-> 0 ]
           ELSE IF S.status.main \in { UNARMED, UNAVAILABLE } THEN NoRequest
           ELSE IF input.kind = "timer" /\ status.main = ARMING
           THEN [ armRequest EXCEPT !.ticks = @ + 1 ]
           ELSE armRequest
    /\ UNCHANGED << armingCountdown, triggeredCountdown, disarmPin, threads >>

\* The configuration names the initial status (line 455); the controller
\* starts in one of the two states in which nothing is armed, counting or
\* alerted.
Init ==
    /\ status \in { Status2(UNARMED, 0), Status2(UNAVAILABLE, 0) }
    /\ sendPin = EmptyString
    /\ armStatus = None
    /\ armingCountdown \in { 0, MaxArmingCountdown }
    /\ triggeredCountdown \in { 0, MaxTriggeredCountdown }
    /\ disarmPin \in DisarmPins
    /\ timers = { }
    /\ subscriptions = { }
    /\ connected = FALSE
    /\ out = << >>
    /\ last = Input("init", NoMessage, NoTimer)
    /\ runs = 0
    /\ cancelled = { }
    /\ armLog = NoLog
    /\ threads = { }
    /\ published = NoneObject
    /\ triggeredBy = NoCause
    /\ armRequest = NoRequest

\* the broker accepts the connection
Connect ==
    /\ ~ connected
    /\ connected' = TRUE
    /\ Becomes(on_connect(Current), Input("connect", NoMessage, NoTimer))

\* a message arrives on the command topic
Command ==
    /\ connected
    /\ \E message \in CommandMessages :
          \E pin \in IF find(message.payload, DEACTIVATE_REQUEST) > -1
                     THEN ChallengePins ELSE { EmptyString } :
              Becomes(on_message(Current, message, pin, TRUE),
                      Input("command", message, NoTimer))
    /\ UNCHANGED connected

\* a message arrives on another topic; the device-name lookup is made only
\* by an activation
EventArrives ==
    /\ connected
    /\ \E message \in EventMessages :
          \E lookupOk \in IF triggeredCountdown = 0 THEN BOOLEAN ELSE { TRUE } :
              Becomes(on_message(Current, message, EmptyString, lookupOk),
                      Input("event", message, NoTimer))
    /\ UNCHANGED connected

\* a countdown timer fires
Tick ==
    /\ \E timer \in timers :
          \E lookupOk \in IF timer.callback = "doTrigger" /\ status.countdown = 0
                          THEN BOOLEAN ELSE { TRUE } :
              Becomes(timerFires(Current, timer, lookupOk),
                      Input("timer", NoMessage, timer))
    /\ UNCHANGED connected

Next == Connect \/ Command \/ EventArrives \/ Tick

Spec == Init /\ [][Next]_vars

-----------------------------------------------------------------------------
(* The challenge and its answer over a wider range of pins.  The initial   *)
(* states are the states Spec reaches by Connect, ARM_HOME (with           *)
(* armingCountdown 0), the event house/door "open", DEACTIVATE_REQUEST and *)
(* the ticks down to countdown 0: the alarm is TRIGGERED, its last tick is *)
(* pending and a challenge is outstanding.  Challenge, secret and          *)
(* responses are then drawn from larger sets than in Spec.                 *)

RECURSIVE PinsOver(_, _)
\* the strings of n characters of the given set
PinsOver(chars, n) ==
    IF n = 0 THEN { << >> }
    ELSE { << c >> \o p : c \in chars, p \in PinsOver(chars, n - 1) }

WideChallengePins == PinsOver({ "0", "9" }, PinLen)

WideResponsePins == PinsOver({ "0", "1", "9" }, PinLen)

WideDisarmPins ==
    { << "9", "0", "1", "2" >>, << "0", "0", "0", "0" >>, << "1", "9", "2", "0" >> }

DoorOpens == EventMessage(<< "house", "door" >>, "open")

InitPin ==
    /\ armingCountdown = 0
    /\ triggeredCountdown = MaxTriggeredCountdown
    /\ disarmPin \in WideDisarmPins
    /\ sendPin \in WideChallengePins
    /\ status = Status(TRIGGERED, 0, sendPin)
    /\ armStatus = ARMED_HOME
    /\ timers = { TriggerTimer(DoorOpens, NotifyMotion, 2) }
    /\ subscriptions = { subscribeTopic, << "house", "door" >> }
    /\ connected = TRUE
    /\ out = << [ call |-> "publish", topic |-> publishTopic, payload |-> toJson(status) ] >>
    /\ last = Input("timer", NoMessage, TriggerTimer(DoorOpens, NotifyMotion, 2))
    /\ runs = 2
    /\ cancelled = { }
    /\ armLog = NoLog
    /\ threads = { }
    /\ published = toJson(status)
    /\ triggeredBy = [ message |-> DoorOpens, notify |-> NotifyMotion ]
    /\ armRequest = [ target |-> ARMED_HOME, ticks |-> 0 ]

\* a DEACTIVATE arrives with some pin
DeactivateArrives ==
    /\ \E pin \in WideResponsePins :
          LET message == [ topic |-> subscribeTopic,
                           payload |-> JsonText(DEACTIVATE, { "command", "pin" }, pin) ]
          IN  Becomes(on_message(Current, message, EmptyString, TRUE),
                      Input("command", message, NoTimer))
    /\ UNCHANGED connected

NextPin == DeactivateArrives \/ Tick

SpecPin == InitPin /\ [][NextPin]_vars

-----------------------------------------------------------------------------
(* The threads of the program.  A threading.Timer runs its callback on a   *)
(* thread of its own, the client runs on_message on its loop thread, and   *)
(* MqttAlarm holds no lock: the statements of __doArm, __doTrigger,        *)
(* __disarm, __deactivate, __doDisarm and __setStatus interleave between   *)
(* threads.  SpecRace takes these callbacks one statement at a time.  A    *)
(* thread is the callback it runs (timer for a tick, message for a         *)
(* command), the statement it is at (pc) and the Status object it has      *)
(* built and not yet assigned (newStatus).  __arm, __deactivateRequest and *)
(* the trigger matcher run in one step on the loop thread, between the     *)
(* statements of the timer threads.                                        *)

Thread(timer, message, pc, newStatus) ==
    [ timer |-> timer, message |-> message, pc |-> pc, newStatus |-> newStatus ]

\* the thread runs a timer callback
IsTick(th) == th.message = NoMessage

\* the loop thread is inside a handler
LoopThreadBusy == \E th \in threads : ~ IsTick(th)

RaceChallenge == << "1", "2", "3", "4" >>

RaceResponse == << "0", "6", "2", "1" >>

\* commands whose handler is taken in one step
RaceCommands ==
    { [ topic |-> subscribeTopic, payload |-> PlainText(w) ] :
          w \in { ARM_AWAY, DEACTIVATE_REQUEST } }

RaceEvents == { EventMessage(<< "house", "door" >>, "open") }

\* commands whose handler is taken statement by statement
RaceDisarms ==
    { [ topic |-> subscribeTopic, payload |-> PlainText(DISARM) ],
      [ topic |-> subscribeTopic,
        payload |-> JsonText(DEACTIVATE, { "command", "pin" }, RaceResponse) ] }

\* Thread th made a statement: it goes on as the threads of next (none when
\* its callback has returned) and the controller is as S says.
RaceBecomes(th, next, S, statement) ==
    /\ threads' = (threads \ { th }) \cup next
    /\ status' = S.status
    /\ sendPin' = S.sendPin
    /\ armStatus' = S.armStatus
    /\ timers' = S.timers
    /\ subscriptions' = S.subscriptions
    /\ out' = S.out
    /\ last' = Input(statement, th.message, th.timer)
    /\ published' = LET statuses == statusesOf(S.out)
                    IN  IF statuses = << >> THEN published
                        ELSE statuses[Len(statuses)]
    /\ triggeredBy' = IF S.status.main \in { TRIGGERED, ACTIVATED } THEN triggeredBy
                      ELSE NoCause
    /\ armRequest' = IF S.status.main \in { UNARMED, UNAVAILABLE } THEN NoRequest
                     ELSE armRequest
    /\ UNCHANGED << armingCountdown, triggeredCountdown, disarmPin, connected,
                    runs, cancelled, armLog >>

At(th, pc, next) == { [ th EXCEPT !.pc = pc, !.newStatus = next ] }

\* line 228-234: __arm, __deactivateRequest, or the trigger matcher with
\* __trigger, run by the loop thread without a break
RaceMessage ==
    /\ connected
    /\ ~ LoopThreadBusy
    /\ \/ \E message \in RaceCommands :
             \E pin \in IF find(message.payload, DEACTIVATE_REQUEST) > -1
                        THEN { RaceChallenge } ELSE { EmptyString } :
                 Becomes(on_message(Current, message, pin, TRUE),
                         Input("command", message, NoTimer))
       \/ \E message \in RaceEvents :
             Becomes(on_message(Current, message, EmptyString, TRUE),
                     Input("event", message, NoTimer))
    /\ UNCHANGED connected

\* a Timer fires: its callback begins on a new thread.  The callback that
\* started the timer began a second earlier and has returned.
TickBegins ==
    \E timer \in timers :
        /\ \A th \in threads : th.timer # timer
        /\ RaceBecomes(Thread(timer, NoMessage, "begin", status),
                       { Thread(timer, NoMessage, "checkMain", status) },
                       [ Current EXCEPT !.timers = @ \ { timer } ], "begin")

\* line 235-239: the router hands a DEACTIVATE or a DISARM to its handler
HandlerBegins ==
    /\ connected
    /\ ~ LoopThreadBusy
    /\ \E message \in RaceDisarms :
          RaceBecomes(Thread(NoTimer, message, "begin", status),
                      { Thread(NoTimer, message, "checkMain", status) },
                      Current, "begin")

\* line 279 and 305: if( X != self.status.main ): return
TickChecksMain ==
    \E th \in threads :
        /\ IsTick(th)
        /\ th.pc = "checkMain"
        /\ LET expected == IF th.timer.callback = "doArm" THEN ARMING ELSE TRIGGERED
           IN  RaceBecomes(th, IF expected # status.main THEN { }
                               ELSE At(th, "checkCountdown", th.newStatus),
                           Current, "checkMain")

\* line 376: the guard of __disarm
DisarmChecksMain ==
    \E th \in threads :
        /\ ~ IsTick(th)
        /\ find(th.message.payload, DEACTIVATE) = -1
        /\ th.pc = "checkMain"
        /\ RaceBecomes(th, IF \/ ARMED_AWAY = status.main
                              \/ ARMED_HOME = status.main
                              \/ ARMING = status.main
                           THEN At(th, "doDisarm", th.newStatus) ELSE { },
                       Current, "checkMain")

\* line 346-371: the guard of __deactivate, the pin loop and
\* self.sendPin = ''.  Only this thread writes sendPin meanwhile.
DeactivateChecks ==
    \E th \in threads :
        /\ ~ IsTick(th)
        /\ find(th.message.payload, DEACTIVATE) > -1
        /\ th.pc = "checkMain"
        /\ LET text == th.message.payload
               accepted == /\ status.main \in { TRIGGERED, ACTIVATED }
                           /\ ~ IsNone(text.json)
                           /\ "pin" \in text.json.keys
                           /\ pinMatches(text.json.pin, sendPin)
           IN  RaceBecomes(th, IF accepted THEN At(th, "doDisarm", th.newStatus)
                               ELSE { },
                           IF accepted THEN [ Current EXCEPT !.sendPin = EmptyString ]
                           ELSE Current,
                           "checkMain")

\* line 283-284 and 309-310: if( self.status.countdown > 0 ): Timer(...).start()
TickChecksCountdown ==
    \E th \in threads :
        /\ th.pc = "checkCountdown"
        /\ IF status.countdown > 0
           THEN RaceBecomes(th, At(th, "readCountdown", th.newStatus),
                            startTimer(Current, th.timer), "checkCountdown")
           ELSE RaceBecomes(th, At(th, "terminal", th.newStatus),
                            Current, "checkCountdown")

\* line 285 and 311: the argument Status( X, self.status.countdown - 1, ... )
\* of __setStatus is evaluated
TickReadsCountdown ==
    \E th \in threads :
        /\ th.pc = "readCountdown"
        /\ RaceBecomes(th,
                       At(th, "assign",
                          IF th.timer.callback = "doArm"
                          THEN Status2(ARMING, status.countdown - 1)
                          ELSE Status(TRIGGERED, status.countdown - 1, sendPin)),
                       Current, "readCountdown")

\* line 313-334 up to the call of __setStatus( finalArmStatus ), and line 262
\* up to the call of __setStatus( Status( ACTIVATED ) )
TickTerminal ==
    \E th \in threads :
        /\ th.pc = "terminal"
        /\ IF th.timer.callback = "doArm"
           THEN LET finalArmStatus == th.timer.finalArmStatus
                    config == IF ARMED_AWAY = finalArmStatus.main THEN armedAway
                              ELSE IF ARMED_HOME = finalArmStatus.main THEN armedHome
                              ELSE EmptyArmConfig
                    S1 == subscribeAll(Current, triggerTopics(config.triggers))
                    S2 == publishAll(S1, config.start)
                    S3 == [ S2 EXCEPT !.armStatus = finalArmStatus.main ]
                IN  RaceBecomes(th, At(th, "assign", finalArmStatus), S3, "terminal")
           ELSE RaceBecomes(th, At(th, "assign", Status1(ACTIVATED)), Current,
                            "terminal")

\* line 379-396: __doDisarm up to the call of __setStatus( Status( UNARMED ) )
HandlerDoDisarm ==
    \E th \in threads :
        /\ th.pc = "doDisarm"
        /\ LET config == IF ARMED_AWAY = status.main THEN armedAway
                         ELSE IF ARMED_HOME = status.main THEN armedHome
                         ELSE EmptyArmConfig
               S1 == unsubscribeAll(Current, triggerTopics(config.triggers))
               S2 == publishAll(S1, config.stop)
               S3 == [ S2 EXCEPT !.armStatus = UNARMED ]
           IN  RaceBecomes(th, At(th, "assign", Status1(UNARMED)), S3, "doDisarm")

\* line 400: self.status = status
SetStatusAssigns ==
    \E th \in threads :
        /\ th.pc = "assign"
        /\ RaceBecomes(th, At(th, "publish", th.newStatus),
                       [ Current EXCEPT !.status = th.newStatus ], "assign")

\* line 401: self.client.publish( ..., self.status.toJson(), ... ); __activate
\* goes on to the notification, the other callers return
SetStatusPublishes ==
    \E th \in threads :
        /\ th.pc = "publish"
        /\ RaceBecomes(th,
                       IF /\ IsTick(th)
                          /\ th.timer.callback = "doTrigger"
                          /\ th.newStatus.main = ACTIVATED
                       THEN At(th, "notify", th.newStatus) ELSE { },
                       publish(Current, publishTopic, toJson(status)), "publish")

\* line 263-264: the notification of __activate
ActivateNotifies ==
    \E th \in threads :
        /\ th.pc = "notify"
        /\ \E lookupOk \in BOOLEAN :
              RaceBecomes(th, { },
                          IF IsNone(th.timer.notify) THEN Current
                          ELSE publish(Current, notifierMqttPublish,
                                       toMqttCommand(th.timer.notify,
                                           generateMessage(th.timer.message, lookupOk))),
                          "notify")

NextRace ==
    \/ Connect
    \/ RaceMessage
    \/ TickBegins
    \/ HandlerBegins
    \/ TickChecksMain
    \/ DisarmChecksMain
    \/ DeactivateChecks
    \/ TickChecksCountdown
    \/ TickReadsCountdown
    \/ TickTerminal
    \/ HandlerDoDisarm
    \/ SetStatusAssigns
    \/ SetStatusPublishes
    \/ ActivateNotifies

\* the controller as constructed, with both countdowns configured
InitRace ==
    /\ Init
    /\ armingCountdown = MaxArmingCountdown
    /\ triggeredCountdown = MaxTriggeredCountdown

SpecRace == InitRace /\ [][NextRace]_vars

-----------------------------------------------------------------------------
(* Other payloads on the command topic: texts that contain more than one   *)
(* command name, and DEACTIVATE payloads that are not a JSON object with a *)
(* pin of four digits.  SpecText is Spec with these payloads.              *)

\* with secret 9497 and challenge 1234 the pin 0621 answers; the pins
\* here are shorter, longer, or have a character that is no digit
OddPins ==
    { << "0", "6", "2" >>, << "0", "6", "2", "1", "9" >>, << "0", "6", "2", "x" >>,
      << "0", "6", "2", "1" >> }

TextPayloads ==
    { PlainText(w) : w \in { DEACTIVATE, DISARM, << "STATUS" >>,
                             DISARM \o ARM_AWAY,
                             ARM_AWAY \o ARM_HOME,
                             DISARM \o DEACTIVATE_REQUEST,
                             DEACTIVATE \o DISARM } }
    \cup { JsonText(DISARM \o DEACTIVATE, { "command", "pin" }, RaceResponse) }
    \cup { JsonText(DEACTIVATE, { "command", "pin" }, p) : p \in OddPins }
    \cup { JsonText(DEACTIVATE, { "command" }, EmptyString) }

\* a message arrives on the command topic
CommandText ==
    /\ connected
    /\ \E text \in TextPayloads :
          \E pin \in IF find(text, DEACTIVATE_REQUEST) > -1
                     THEN { RaceChallenge } ELSE { EmptyString } :
              LET message == [ topic |-> subscribeTopic, payload |-> text ]
              IN  Becomes(on_message(Current, message, pin, TRUE),
                          Input("command", message, NoTimer))
    /\ UNCHANGED connected

NextText == Connect \/ CommandText \/ EventArrives \/ Tick

\* the controller as constructed, UNARMED and with an arming countdown
InitText ==
    /\ Init
    /\ status = Status2(UNARMED, 0)
    /\ armingCountdown = MaxArmingCountdown
    /\ triggeredCountdown = MaxTriggeredCountdown

SpecText == InitText /\ [][NextText]_vars

-----------------------------------------------------------------------------
(* The alarm re-armed and triggered again while a tick of an earlier       *)
(* triggered run is pending.  The initial state is the state Spec reaches  *)
(* by Connect, ARM_AWAY (with armingCountdown 0) and the event house/door  *)
(* "open": the alarm is TRIGGERED by the first rule of armedAway and the   *)
(* first tick is pending.  Runs are counted from this state on; the run    *)
(* under way is run 0.                                                     *)

InitRearm ==
    /\ armingCountdown = 0
    /\ triggeredCountdown = MaxTriggeredCountdown
    /\ disarmPin \in DisarmPins
    /\ sendPin = EmptyString
    /\ status = Status(TRIGGERED, triggeredCountdown - 1, sendPin)
    /\ armStatus = ARMED_AWAY
    /\ timers = { TriggerTimer(DoorOpens, NotifyDoor, 0) }
    /\ subscriptions = { subscribeTopic } \cup
                       { triggerTopics(armedAway.triggers)[i] :
                             i \in 1..Len(triggerTopics(armedAway.triggers)) }
    /\ connected = TRUE
    /\ out = << [ call |-> "publish", topic |-> publishTopic,
                  payload |-> toJson(Status(TRIGGERED, triggeredCountdown, sendPin)) ],
                [ call |-> "publish", topic |-> publishTopic,
                  payload |-> toJson(status) ] >>
    /\ last = Input("event", DoorOpens, NoTimer)
    /\ runs = 0
    /\ cancelled = { }
    /\ armLog = NoLog
    /\ threads = { }
    /\ published = toJson(status)
    /\ triggeredBy = [ message |-> DoorOpens, notify |-> NotifyDoor ]
    /\ armRequest = [ target |-> ARMED_AWAY, ticks |-> 0 ]

NextRearm == Command \/ EventArrives \/ Tick

SpecRearm == InitRearm /\ [][NextRearm]_vars

-----------------------------------------------------------------------------
(* Countdowns under fair timers.  A started Timer fires after a second     *)
(* (lines 284, 310): a tick that is pending is not put off for ever.       *)
(* SpecFair is Spec with this fairness, with both countdowns configured    *)
(* and with one payload for each command and two events.                   *)

FairMessages ==
    { [ topic |-> subscribeTopic, payload |-> t ] :
          t \in { PlainText(ARM_HOME), PlainText(ARM_AWAY), PlainText(DISARM),
                  PlainText(DEACTIVATE_REQUEST),
                  JsonText(DEACTIVATE, { "command", "pin" }, RaceResponse) } }
    \cup { DoorOpens, EventMessage(<< "garden", "gate" >>, "open") }

\* a message arrives
MessageArrives ==
    /\ connected
    /\ \E message \in FairMessages :
          \E pin \in IF find(message.payload, DEACTIVATE_REQUEST) > -1
                     THEN { RaceChallenge } ELSE { EmptyString } :
              Becomes(on_message(Current, message, pin, TRUE),
                      Input(IF message.topic = subscribeTopic THEN "command"
                            ELSE "event", message, NoTimer))
    /\ UNCHANGED connected

NextFair == Connect \/ MessageArrives \/ Tick

SpecFair == InitRace /\ [][NextFair]_vars /\ WF_vars(Tick)

-----------------------------------------------------------------------------
(* Vocabulary of the properties.  A step is described by the input of the  *)
(* handler that made it (last'), the state before it (unprimed) and the    *)
(* state after it (primed).                                                *)

Armed == { ARMED_HOME, ARMED_AWAY }

Alerted == { TRIGGERED, ACTIVATED }

\* the profile of an armed state
ProfileOf(main) ==
    IF main = ARMED_AWAY THEN armedAway
    ELSE IF main = ARMED_HOME THEN armedHome
    ELSE EmptyArmConfig

\* the elements of a sequence
Range(seq) == { seq[i] : i \in 1..Len(seq) }

\* the step handled a command whose text contains the given name
CommandStep(name) ==
    /\ last'.kind = "command"
    /\ find(last'.message.payload, name) > -1

\* the step handled a DEACTIVATE (and not a DEACTIVATE_REQUEST)
DeactivateStep ==
    /\ CommandStep(DEACTIVATE)
    /\ find(last'.message.payload, DEACTIVATE_REQUEST) = -1

\* the step handled a DEACTIVATE and the alarm left TRIGGERED/ACTIVATED
AcceptedDeactivateStep ==
    /\ DeactivateStep
    /\ status.main \in Alerted
    /\ status'.main = UNARMED

\* the step ran the callback of a timer
TickStep == last'.kind = "timer"

\* the handler of the step did nothing that can be observed
NoOpStep ==
    /\ out' = << >>
    /\ status' = status
    /\ sendPin' = sendPin
    /\ armStatus' = armStatus
    /\ subscriptions' = subscriptions
    /\ timers' \subseteq timers

\* the notifications among the client calls of the step
Notifications(calls) ==
    { i \in 1..Len(calls) :
        calls[i].call = "publish" /\ calls[i].topic = notifierMqttPublish }

-----------------------------------------------------------------------------
(* C1: once a DISARM or an accepted DEACTIVATE has changed the main state  *)
(* while a tick of a countdown run was scheduled, every tick of that run   *)
(* that fires afterwards is a no-op: it publishes nothing, schedules no    *)
(* further tick and runs no terminal action, whatever was accepted in      *)
(* between.                                                                *)
C1_TicksOfDisarmedRunAreNoOps ==
    [][ (TickStep /\ last'.timer.run \in cancelled) => NoOpStep ]_vars

(* C2: an accepted DEACTIVATE clears the challenge, unsubscribes every     *)
(* trigger topic of the profile that was armed when the alarm triggered,   *)
(* publishes every stop action of that profile, clears the armed-profile   *)
(* marker and publishes UNARMED with countdown 0 and empty challengePin.   *)
C2_AcceptedDeactivateReleasesProfile ==
    [][ AcceptedDeactivateStep =>
          LET profile == ProfileOf(armStatus)
              calls == Range(out')
          IN  /\ sendPin' = EmptyString
              /\ \A topic \in Range(triggerTopics(profile.triggers)) :
                    /\ \E c \in calls : c.call = "unsubscribe" /\ c.topic = topic
                    /\ topic \notin subscriptions'
              /\ \A p \in Range(profile.stop) :
                    \E c \in calls : /\ c.call = "publish"
                                     /\ c.topic = p.topic
                                     /\ c.payload = [ type |-> "command", command |-> p.command ]
              /\ armStatus' \notin Armed
              /\ status' = Status(UNARMED, 0, EmptyString)
              /\ out'[Len(out')] = [ call |-> "publish", topic |-> publishTopic,
                                     payload |-> toJson(status') ] ]_vars

(* C5: a DEACTIVATE_REQUEST received while main is neither TRIGGERED nor   *)
(* ACTIVATED generates no challenge, leaves none outstanding and publishes *)
(* no status; while TRIGGERED or ACTIVATED it stores a fresh 4-digit       *)
(* challenge and publishes main and countdown unchanged with challengePin  *)
(* set to it.                                                              *)
C5_DeactivateRequestOnlyWhenAlerted ==
    [][ CommandStep(DEACTIVATE_REQUEST) =>
          IF status.main \in Alerted
          THEN /\ sendPin' \in ChallengePins
               /\ status' = Status(status.main, status.countdown, sendPin')
               /\ statusesOf(out') = << toJson(status') >>
          ELSE /\ sendPin' = sendPin
               /\ sendPin' = EmptyString
               /\ out' = << >> ]_vars

(* C6: whichever rule started the triggered run, a countdown tick that     *)
(* fires with main TRIGGERED and countdown 0 publishes ACTIVATED with      *)
(* countdown 0 and exactly one notification; a notification is published   *)
(* by no handler but one that activates, and then once.                    *)
C6_ActivationNotifiesOnce ==
    [][ /\ (TickStep /\ last'.timer.callback = "doTrigger"
               /\ status.main = TRIGGERED /\ status.countdown = 0)
           => /\ status'.main = ACTIVATED
              /\ status'.countdown = 0
              /\ Cardinality(Notifications(out')) = 1
        /\ Notifications(out') # { }
           => /\ Cardinality(Notifications(out')) = 1
              /\ status.main # ACTIVATED
              /\ status'.main = ACTIVATED ]_vars

(* C9: every transition from ARMED_HOME or ARMED_AWAY to TRIGGERED         *)
(* publishes a status with countdown = triggeredCountdown and an empty     *)
(* challengePin, whatever was received before.                             *)
C9_TriggerPublishesEmptyChallenge ==
    [][ (status.main \in Armed /\ status'.main \in Alerted) =>
          /\ statusesOf(out') # << >>
          /\ Head(statusesOf(out')) =
                toJson(Status(TRIGGERED, triggeredCountdown, EmptyString)) ]_vars

-----------------------------------------------------------------------------
(* Confirmed and corrected claims.                                         *)

\* a string of exactly four digits
IsFourDigits(p) == Len(p) = PinLen /\ \A i \in 1..PinLen : isdigit(p[i])

\* (R[i] - C[i]) mod 10 == D[i] for every position
ResponseAnswers(R, C, D) ==
    \A i \in 1..PinLen : (int(R[i]) - int(C[i])) % 10 = int(D[i])

Pin9497 == << "9", "4", "9", "7" >>
Pin1234 == << "1", "2", "3", "4" >>
Pin0621 == << "0", "6", "2", "1" >>
Pin0000 == << "0", "0", "0", "0" >>

\* the scenario of C3: secret 9497, challenge 1234 outstanding, alarm
\* TRIGGERED or ACTIVATED, and a command arrives
ScenarioStep(text) ==
    /\ disarmPin = Pin9497
    /\ sendPin = Pin1234
    /\ status.main \in Alerted
    /\ last'.kind = "command"
    /\ last'.message.payload = text

C4_AcceptedIffResponseAnswers ==
    [][ ( /\ DeactivateStep
          /\ status.main \in Alerted
          /\ IsFourDigits(sendPin)
          /\ ~ IsNone(last'.message.payload.json)
          /\ "pin" \in last'.message.payload.json.keys
          /\ IsFourDigits(last'.message.payload.json.pin) )
        => IF ResponseAnswers(last'.message.payload.json.pin, sendPin, disarmPin)
           THEN status'.main = UNARMED /\ sendPin' = EmptyString
           ELSE NoOpStep /\ timers' = timers ]_vars

\* a response wrong in its last digit only was rejected while TRIGGERED, and
\* the challenge is still there
C4_Witness ==
    /\ last.kind = "command"
    /\ find(last.message.payload, DEACTIVATE) > -1
    /\ ~ IsNone(last.message.payload.json)
    /\ IsFourDigits(last.message.payload.json.pin)
    /\ status.main = TRIGGERED
    /\ timers # { }
    /\ IsFourDigits(sendPin)
    /\ status.challengePin = sendPin
    /\ out = << >>
    /\ LET R == last.message.payload.json.pin
       IN  /\ \A i \in 1..(PinLen - 1) :
                 (int(R[i]) - int(sendPin[i])) % 10 = int(disarmPin[i])
           /\ (int(R[PinLen]) - int(sendPin[PinLen])) % 10 # int(disarmPin[PinLen])

\* the initial states of SpecPin are states of Spec
C4_InitPinReached ==
    /\ status = Status(TRIGGERED, 0, sendPin)
    /\ sendPin \in ChallengePins
    /\ armingCountdown = 0
    /\ triggeredCountdown = MaxTriggeredCountdown
    /\ armStatus = ARMED_HOME
    /\ timers = { TriggerTimer(DoorOpens, NotifyMotion, 2) }
    /\ subscriptions = { subscribeTopic, << "house", "door" >> }
    /\ out = << [ call |-> "publish", topic |-> publishTopic, payload |-> toJson(status) ] >>
    /\ last = Input("timer", NoMessage, TriggerTimer(DoorOpens, NotifyMotion, 2))
    /\ runs = 2
    /\ cancelled = { }
    /\ armLog = NoLog
    /\ threads = { }
    /\ published = toJson(status)

\* a published status
CountdownInRange(s) ==
    /\ s.countdown >= 0
    /\ s.countdown # 0 => s.main \in { ARMING, TRIGGERED }

(* C7: in every reachable state, and in every status published on the     *)
(* way, countdown >= 0, and countdown is nonzero only with main ARMING or  *)
(* TRIGGERED.                                                              *)
C7_CountdownInRange ==
    /\ CountdownInRange(status)
    /\ \A s \in Range(statusesOf(out)) : CountdownInRange(s)

\* a challenge was requested in the middle of a triggered countdown
C7_Witness ==
    /\ last.kind = "command"
    /\ find(last.message.payload, DEACTIVATE_REQUEST) > -1
    /\ status.main = TRIGGERED
    /\ status.countdown > 0
    /\ status.challengePin # EmptyString

RECURSIVE countdownStatuses(_)
\* ARMING/n, ARMING/n-1, ..., ARMING/0
countdownStatuses(n) ==
    IF n < 0 THEN << >>
    ELSE << toJson(Status2(ARMING, n)) >> \o countdownStatuses(n - 1)

\* what a full arming run to the target publishes
FullArmLog(target) ==
    countdownStatuses(armingCountdown) \o << toJson(Status1(target)) >>

(* C8: an ARM_HOME/ARM_AWAY accepted from UNARMED and followed only by the *)
(* ticks of its run publishes ARMING/N, ..., ARMING/0 (N+1 statuses) and   *)
(* then the requested armed state with countdown 0, in that order, and     *)
(* ends in the requested state; for N = 3 and ARM_AWAY: ARMING/3,          *)
(* ARMING/2, ARMING/1, ARMING/0, ARMED_AWAY/0.                             *)
C8_ArmingRunPublishesCountdown ==
    armLog.run # 0 =>
        LET full == FullArmLog(armLog.target)
            done == \A t \in timers : t.run # armLog.run
        IN  /\ Len(armLog.log) <= Len(full)
            /\ armLog.log = SubSeq(full, 1, Len(armLog.log))
            /\ Len(full) = armingCountdown + 2
            /\ status.main \in { ARMING, armLog.target }
            /\ (done \/ status.main \in Armed)
               => (armLog.log = full /\ status = Status1(armLog.target))
            /\ (armingCountdown = 3 /\ armLog.target = ARMED_AWAY /\ done)
               => armLog.log = << toJson(Status2(ARMING, 3)), toJson(Status2(ARMING, 2)),
                                  toJson(Status2(ARMING, 1)), toJson(Status2(ARMING, 0)),
                                  toJson(Status1(ARMED_AWAY)) >>

\* the run of an ARM_AWAY with N = 3 has ended
C8_Witness ==
    /\ armLog.run # 0
    /\ armingCountdown = 3
    /\ armLog.target = ARMED_AWAY
    /\ status.main = ARMED_AWAY
    /\ Len(armLog.log) = 5
    /\ last.kind = "timer"

\* the event matches a topic pattern and the regex of one rule
MatchesRule(message, rule) ==
    /\ \E o \in Range(rule.topics) : topic_matches_sub(o, message.topic)
    /\ re_search(rule.regex, message.payload.words)

(* C10: an event changes the status only when main is ARMED_HOME or        *)
(* ARMED_AWAY and it matches a rule of the profile of that armed state; in *)
(* every other case, and always while TRIGGERED or ACTIVATED, main and     *)
(* countdown stay and no countdown run starts; an event starts at most one *)
(* run even when it matches several rules.                                 *)
C10_OnlyMatchingEventsTrigger ==
    [][ last'.kind = "event" =>
          LET message == last'.message
              matching == /\ status.main \in Armed
                          /\ \E rule \in Range(ProfileOf(status.main).triggers) :
                                MatchesRule(message, rule)
          IN  /\ ~ matching => /\ status' = status
                               /\ timers' = timers
                               /\ runs' = runs
                               /\ out' = << >>
              /\ matching => status'.main \in Alerted
              /\ runs' <= runs + 1
              /\ Cardinality(timers' \ timers) <= 1 ]_vars

\* an event matching both rules of armedAway triggered the alarm
C10_Witness ==
    /\ last.kind = "event"
    /\ last.message = EventMessage(<< "house", "door" >>, "open")
    /\ armStatus = ARMED_AWAY
    /\ status.main = TRIGGERED
    /\ Cardinality(timers) = 1

-----------------------------------------------------------------------------
(* C11: in every interleaving of the statements of a tick (check main,     *)
(* read countdown, write status) with those of a DISARM or an accepted     *)
(* DEACTIVATE, a tick never writes ARMING or TRIGGERED over an UNARMED     *)
(* that a handler has published, and never writes a negative countdown.    *)
TickWrites == last'.kind = "assign" /\ last'.message = NoMessage

C11_TickNeverOverwritesDisarm ==
    [][ TickWrites =>
            /\ ~ (published.main = UNARMED /\ status'.main \in { ARMING, TRIGGERED })
            /\ status'.countdown >= 0 ]_vars

(* C12: __setStatus is atomic for every other thread: whenever a thread    *)
(* reads self.status (the test of main, the test or the read of the        *)
(* countdown, the choice of the profile in __doDisarm, a handler of the    *)
(* loop thread), the status in memory is the status last published.        *)
ReadsStatus ==
    last'.kind \in { "checkMain", "checkCountdown", "readCountdown", "doDisarm",
                     "command", "event" }

C12_ReadersSeePublishedStatus ==
    [][ ReadsStatus => toJson(status) = published ]_vars

-----------------------------------------------------------------------------
(* C13: while main is TRIGGERED or ACTIVATED with a challenge outstanding, *)
(* a DEACTIVATE whose payload is not a JSON object, has no pin, or has a   *)
(* pin that is not exactly four digits (shorter, longer, or with a         *)
(* character that is no digit) never disarms: status, challenge and        *)
(* subscriptions stay as they are.                                         *)
Malformed(text) ==
    \/ IsNone(text.json)
    \/ "pin" \notin text.json.keys
    \/ ~ IsFourDigits(text.json.pin)

C13_MalformedDeactivateNeverDisarms ==
    [][ ( /\ DeactivateStep
          /\ status.main \in Alerted
          /\ sendPin # EmptyString
          /\ Malformed(last'.message.payload) )
        => ( /\ status' = status
             /\ sendPin' = sendPin
             /\ subscriptions' = subscriptions ) ]_vars

-----------------------------------------------------------------------------
(* C14: a DEACTIVATE changes nothing (status, challenge, marker,           *)
(* subscriptions, nothing published) unless main is TRIGGERED or ACTIVATED *)
(* and a challenge is outstanding; so it never disarms while UNARMED, nor  *)
(* while TRIGGERED or ACTIVATED before any DEACTIVATE_REQUEST.             *)
C14_DeactivateNeedsAlertAndChallenge ==
    [][ ( /\ DeactivateStep
          /\ ~ (status.main \in Alerted /\ sendPin # EmptyString) )
        => ( NoOpStep /\ timers' = timers ) ]_vars

\* a DEACTIVATE carrying the secret itself was handled while the alarm was
\* TRIGGERED or ACTIVATED and no challenge had been requested
C14_Witness ==
    /\ last.kind = "command"
    /\ find(last.message.payload, DEACTIVATE) > -1
    /\ find(last.message.payload, DEACTIVATE_REQUEST) = -1
    /\ ~ IsNone(last.message.payload.json)
    /\ last.message.payload.json.pin = disarmPin
    /\ status.main \in Alerted
    /\ sendPin = EmptyString

-----------------------------------------------------------------------------
(* C15: a DISARM received while ARMED_HOME or ARMED_AWAY unsubscribes      *)
(* every trigger topic of that profile, publishes every stop action of     *)
(* that profile, clears the armed-profile marker and publishes UNARMED/0;  *)
(* received while ARMING it publishes UNARMED/0; received in any other     *)
(* state it changes nothing, so the alarm leaves TRIGGERED or ACTIVATED    *)
(* for UNARMED only by a DEACTIVATE.                                       *)
DisarmStep ==
    /\ CommandStep(DISARM)
    /\ \A name \in { ARM_HOME, ARM_AWAY, DEACTIVATE } :
           find(last'.message.payload, name) = -1

\* the calls of the step that unsubscribe, and those that publish a command
Unsubscribed(calls) == { c.topic : c \in { d \in Range(calls) : d.call = "unsubscribe" } }

CommandsPublished(calls) ==
    { [ topic |-> c.topic, command |-> c.payload.command ] :
          c \in { d \in Range(calls) : d.call = "publish" /\ d.payload.type = "command" } }

PublishesUnarmedLast ==
    /\ out' # << >>
    /\ out'[Len(out')] = [ call |-> "publish", topic |-> publishTopic,
                           payload |-> toJson(Status2(UNARMED, 0)) ]
    /\ status' = Status2(UNARMED, 0)
    /\ armStatus' = UNARMED

-----------------------------------------------------------------------------
(* C16: an ARM_HOME or ARM_AWAY received while main is not UNARMED changes *)
(* no state: no status is published, no tick is scheduled, and the marker  *)
(* and the subscriptions stay as they are.                                 *)
ArmStep == CommandStep(ARM_HOME) \/ CommandStep(ARM_AWAY)

C16_ArmOnlyFromUnarmed ==
    [][ (ArmStep /\ status.main # UNARMED) => (NoOpStep /\ timers' = timers) ]_vars

\* an ARM_HOME was handled while the alarm was ARMED_AWAY
C16_Witness ==
    /\ last.kind = "command"
    /\ last.message.payload = PlainText(ARM_HOME)
    /\ status.main = ARMED_AWAY
    /\ armStatus = ARMED_AWAY
    /\ out = << >>

-----------------------------------------------------------------------------
(* C17: for every payload on the command topic exactly one handler runs,   *)
(* that of the first of ARM_HOME, ARM_AWAY, DEACTIVATE_REQUEST,            *)
(* DEACTIVATE, DISARM (in this order) that the payload contains; a payload *)
(* with DEACTIVATE_REQUEST in it is a challenge request and never a        *)
(* DEACTIVATE; a payload with none of the five changes nothing.            *)
Tokens == << ARM_HOME, ARM_AWAY, DEACTIVATE_REQUEST, DEACTIVATE, DISARM >>

\* the token occurs somewhere in the text
Contains(text, token) ==
    \E i \in 1..Len(text.words) :
        /\ i + Len(token) - 1 <= Len(text.words)
        /\ \A j \in 1..Len(token) : text.words[i + j - 1] = token[j]

\* the place in Tokens of the first token the text contains, 0 for none
FirstToken(text) ==
    LET hits == { k \in 1..Len(Tokens) : Contains(text, Tokens[k]) }
    IN  IF hits = { } THEN 0 ELSE CHOOSE k \in hits : \A h \in hits : k <= h

\* the step did to the controller what took it from Current to R
SameAs(R) ==
    /\ status' = R.status
    /\ sendPin' = R.sendPin
    /\ armStatus' = R.armStatus
    /\ timers' = R.timers
    /\ subscriptions' = R.subscriptions
    /\ out' = R.out

C17_FirstTokenDecides ==
    [][ last'.kind = "command" =>
          LET text == last'.message.payload
              k == FirstToken(text)
          IN  /\ k = 0 => NoOpStep
              /\ k = 1 => SameAs(arm(Current, Status1(ARMED_HOME)))
              /\ k = 2 => SameAs(arm(Current, Status1(ARMED_AWAY)))
              /\ k = 3 => /\ IsFourDigits(sendPin')
                          /\ SameAs(deactivateRequest(Current, sendPin'))
              /\ k = 4 => SameAs(deactivate(Current, text))
              /\ k = 5 => SameAs(disarm(Current)) ]_vars

\* a payload with DISARM and DEACTIVATE_REQUEST in it arrived while the
\* alarm was armed: a challenge was made and the alarm stayed armed
C17_Witness ==
    /\ last.kind = "command"
    /\ last.message.payload = PlainText(DISARM \o DEACTIVATE_REQUEST)
    /\ status.main \in Armed
    /\ sendPin # EmptyString
    /\ out = << [ call |-> "publish", topic |-> publishTopic,
                  payload |-> toJson(Status(status.main, 0, sendPin)) ] >>

-----------------------------------------------------------------------------
(* C18: when the terminal action of the arming countdown runs for the      *)
(* target profile P, every topic of every trigger rule of P is subscribed  *)
(* and every start action of P is published before the armed status is    *)
(* published, the marker is set to P and the status published is P with    *)
(* countdown 0; a step that leaves the alarm ARMING subscribes nothing and *)
(* publishes no start action.                                              *)
IsStatusPublish(c) == c.call = "publish" /\ c.topic = publishTopic

\* the profile the arming run of the step is for
TargetOfStep ==
    IF TickStep THEN last'.timer.finalArmStatus.main
    ELSE requested(last'.message.payload)

C18_FinalizeArmOrder ==
    [][ /\ (status.main \notin Armed /\ status'.main \in Armed) =>
              LET P == TargetOfStep
                  n == Len(out')
              IN  /\ n > 0
                  /\ out'[n] = [ call |-> "publish", topic |-> publishTopic,
                                 payload |-> toJson(Status2(P, 0)) ]
                  /\ \A i \in 1..(n - 1) :
                         IsStatusPublish(out'[i]) => out'[i].payload.main = ARMING
                  /\ \A t \in Range(triggerTopics(ProfileOf(P).triggers)) :
                         /\ \E i \in 1..(n - 1) :
                                out'[i].call = "subscribe" /\ out'[i].topic = t
                         /\ t \in subscriptions'
                  /\ \A a \in Range(ProfileOf(P).start) :
                         \E i \in 1..(n - 1) :
                             out'[i] = [ call |-> "publish", topic |-> a.topic,
                                         payload |-> [ type |-> "command",
                                                       command |-> a.command ] ]
                  /\ armStatus' = P
                  /\ status' = Status2(P, 0)
        /\ status'.main = ARMING =>
              /\ \A c \in Range(out') : IsStatusPublish(c)
              /\ subscriptions' = subscriptions ]_vars

\* the last tick of an arming run for ARMED_AWAY has run the terminal
\* action: three subscriptions, two start actions, then the status
C18_Witness ==
    /\ last.kind = "timer"
    /\ last.timer.finalArmStatus.main = ARMED_AWAY
    /\ status = Status2(ARMED_AWAY, 0)
    /\ armStatus = ARMED_AWAY
    /\ Len(out) = 6
    /\ out[1].call = "subscribe"
    /\ out[6] = [ call |-> "publish", topic |-> publishTopic,
                  payload |-> toJson(status) ]

-----------------------------------------------------------------------------
(* C19: every notification sent on activation carries the event and the    *)
(* notify of the rule match that last took the alarm into TRIGGERED,       *)
(* whatever triggers, accepted DEACTIVATEs, re-arms and ticks came before. *)
(* The text carries the event when the device-name lookup succeeds and is  *)
(* the bare template when it fails.                                        *)
C19_NotificationIsOfLastTrigger ==
    [][ \A i \in Notifications(out') :
            /\ ~ IsNone(triggeredBy'.notify)
            /\ \E lookupOk \in BOOLEAN :
                   out'[i].payload =
                       toMqttCommand(triggeredBy'.notify,
                                     generateMessage(triggeredBy'.message, lookupOk)) ]_vars

-----------------------------------------------------------------------------
(* C20: when pending ticks fire in the end, an ARMING alarm becomes        *)
(* ARMED_HOME or ARMED_AWAY unless a DISARM comes first, and a TRIGGERED   *)
(* alarm becomes ACTIVATED unless a DEACTIVATE is accepted first.  A run   *)
(* schedules finitely many ticks: a tick that schedules the next one       *)
(* lowers the countdown by one, and the countdown stays at or above 0.     *)
DisarmedByCommand(name) ==
    /\ status.main = UNARMED
    /\ last.kind = "command"
    /\ find(last.message.payload, name) > -1

-----------------------------------------------------------------------------
(* C21: in every state between two handlers in which main is TRIGGERED or  *)
(* ACTIVATED, the challengePin of the status equals the outstanding        *)
(* challenge (both empty, or the same four digits); DEACTIVATE_REQUEST,    *)
(* rejected DEACTIVATEs, ticks and the activation keep it so.              *)
C21_ChallengePinIsOutstandingChallenge ==
    status.main \in Alerted =>
        /\ status.challengePin = sendPin
        /\ published.challengePin = sendPin

-----------------------------------------------------------------------------
(* C22: whatever ARM_HOME, ARM_AWAY and DISARM commands and ticks came     *)
(* before, when the status becomes ARMED_HOME or ARMED_AWAY it is the      *)
(* state the arm command accepted last asked for, the armed-profile marker *)
(* is that state, and armingCountdown ticks have fired since that command  *)
(* was accepted.                                                           *)
C22_ArmedAsLastRequested ==
    [][ (status.main \notin Armed /\ status'.main \in Armed) =>
            /\ status'.main = armRequest'.target
            /\ armStatus' = armRequest'.target
            /\ armRequest'.ticks = armingCountdown ]_vars

====
